---- MODULE Spec2Model ----
(***************************************************************************)
(* State-machine model of exp/ground/train.py (main, train_model,         *)
(* eval_model) and exp/ground/models/object_encoder.py (ObjectEncoder).    *)
(*                                                                         *)
(* Tensors are abstracted to what the control flow reads: a loss is a      *)
(* small integer, a module's weights are a version number (the number of   *)
(* optimizer updates applied to it since a fresh initialisation), a batch  *)
(* handed to the encoder is a feature value and two mask bits per object   *)
(* position.  Averages are exact rationals <<numerator, denominator>> in   *)
(* lowest terms.  Locals are reset where the code no longer reads them.    *)
(*                                                                         *)
(* Spec        a run of main and one resumption of it on the same          *)
(*             directories (model_num = the step of a saved checkpoint)    *)
(* SpecEval    one call of eval_model, over all validation set sizes       *)
(* SpecEncoder the calls of ObjectEncoder.forward from both loops          *)
(***************************************************************************)
EXTENDS Integers, Sequences, FiniteSets, TLC

\* ------------------------------------------------------------------ bounds
NumEpochs == 2          \* exp_const.num_epochs
MaxValSize == 3         \* samples in the largest validation dataset
NumObjects == 2         \* object positions of a sample

\* ------------------------------------------------------- program constants
InitBestValLoss == 10000

\* Python's None, for values that are otherwise tuples
None == <<>>

\* exp_const.train_batch_size, exp_const.val_batch_size
BatchSize == [train |-> 1, val |-> 2]
\* samples in the training dataset, and in the validation dataset of a
\* training run
DataSize == [train |-> 2, val |-> 2]
\* exp_const.log_step, model_save_step, val_step are drawn from Cadences
Cadences == {1, 2}
FeatVals == {1, 2}
\* <<self_sup_loss, lang_sup_loss, neg_noun_loss>> of one batch
LossVecs == {<<1, 1, 1>>, <<2, 1, 3>>, <<9997, 1, 2>>}
\* <<self_sup_loss_wt, lang_sup_loss_wt, neg_noun_loss_wt>>
LossWts == <<1, 2, 1>>

\* <<exp_const.optimizer, exp_const.dataset>>: the supported names, and an
\* unsupported optimizer, an unsupported dataset, and both
Setups == {<<"SGD", "coco">>, <<"Adam", "flickr">>, <<"RMSprop", "coco">>,
           <<"SGD", "vg">>, <<"RMSprop", "vg">>}

VARIABLES
    exp_const,      \* configuration record of the run (with model_num)
    run,            \* 1 in the first invocation of main, 2 in a resumed one
    pc,             \* position of the single thread of control
    err,            \* the exception that ended the run, "" if none
    params,         \* module name -> weights version
    mode,           \* "train" / "eval" mode of the trainable modules
    opt,            \* the optimizer: kind, parameter groups, updates done
    epoch, it,      \* loop counters of train_model
    step,
    best_val_loss,
    data,           \* the batch handed to ObjectEncoder.forward
    enc_in,         \* what input_layer and context_layer then received
    loss,           \* the three training loss terms of the iteration
    trace,          \* side effects of the current iteration, in order
    tb,             \* scalars written to the tensorboard writer
    disk,           \* checkpoint files in exp_const.model_dir
    best_written,   \* val_loss of the 'best' checkpoints written this run
    ev,             \* locals of eval_model
    eval_results

vars == <<exp_const, run, pc, err, params, mode, opt, epoch, it, step,
          best_val_loss, data, enc_in, loss, trace, tb, disk, best_written,
          ev, eval_results>>

\* ------------------------------------------------------------- arithmetic
RECURSIVE GCD(_, _)
GCD(a, b) == IF b = 0 THEN a ELSE GCD(b, a % b)

\* the rational a/b (b > 0) in lowest terms
Rat(a, b) == LET g == GCD(a, b) IN IF g = 0 THEN <<0, 1>> ELSE <<a \div g, b \div g>>
RLt(x, y) == x[1] * y[2] < y[1] * x[2]
RLe(x, y) == x[1] * y[2] <= y[1] * x[2]
RAdd(x, y) == Rat(x[1] * y[2] + y[1] * x[2], x[2] * y[2])
RScale(k, x) == Rat(k * x[1], x[2])

\* the batch sizes a DataLoader(dataset, batch_size=b) yields over n samples
NumBatches(n, b) == (n + b - 1) \div b
BatchSizes(n, b) ==
    [i \in 1..NumBatches(n, b) |-> IF i * b <= n THEN b ELSE n - (i - 1) * b]

\* a batch: T object positions (of one sample), a feature value and two
\* mask bits per position
Batches(T) == [features : [1..T -> FeatVals],
               object_mask : [1..T -> BOOLEAN],
               pad_mask : [1..T -> BOOLEAN]]
NoData == [features |-> <<>>, object_mask |-> <<>>, pad_mask |-> <<>>]
NoEncIn == [input_layer |-> <<>>, context_layer |-> <<>>]

\* ---------------------------------------------------------- ObjectEncoder
\* the learned substitution embeddings, as a function of the weights version
MaskFeat(v) == 0 - (2 * v + 1)
PadFeat(v) == 0 - (2 * v + 2)

Float(b) == IF b THEN 1 ELSE 0

\* (a faulty variant: the two substitutions in the other order, so that
\* mask_feat overrides pad_feat)
preprocess_mask_last(object_features, object_mask, pad_mask, v) ==
    LET f1 == IF pad_mask # None
              THEN [i \in DOMAIN object_features |->
                      Float(pad_mask[i]) * PadFeat(v)
                      + (1 - Float(pad_mask[i])) * object_features[i]]
              ELSE object_features
        f2 == IF object_mask # None
              THEN [i \in DOMAIN f1 |->
                      Float(object_mask[i]) * MaskFeat(v)
                      + (1 - Float(object_mask[i])) * f1[i]]
              ELSE f1
    IN f2

preprocess_object_features(object_features, object_mask, pad_mask, v) ==
    LET f1 == IF object_mask # None
              THEN [i \in DOMAIN object_features |->
                      Float(object_mask[i]) * MaskFeat(v)
                      + (1 - Float(object_mask[i])) * object_features[i]]
              ELSE object_features
        f2 == IF pad_mask # None
              THEN [i \in DOMAIN f1 |->
                      Float(pad_mask[i]) * PadFeat(v)
                      + (1 - Float(pad_mask[i])) * f1[i]]
              ELSE f1
    IN f2

\* input_layer (Linear, BatchNorm1d, ReLU) is not interpreted: its output is
\* tagged with the features it was applied to
input_layer(x) == <<"input_layer", x>>

\* forward: what input_layer receives, and what context_layer receives
forward(object_features, object_mask, pad_mask, v) ==
    LET x == preprocess_object_features(object_features, object_mask, pad_mask, v)
        transformer_input == input_layer(x)
    IN [input_layer |-> x, context_layer |-> transformer_input]

\* --------------------------------------------------------------- main
Trainable == {"object_encoder", "self_sup_criterion", "lang_sup_criterion"}
Modules == Trainable \cup {"cap_encoder"}

\* the modules train_model optimizes and saves
save_items == IF exp_const.random_lang THEN Modules ELSE Trainable

NoOpt == [kind |-> "", groups |-> {}, t |-> 0]
NoEv == [i |-> 0, num_samples |-> 0, sums |-> <<0, 0, 0>>, processed |-> <<>>]
NoResults == [self_sup_loss |-> None, lang_sup_loss |-> None,
              neg_noun_loss |-> None, total_loss |-> None]

StepPath(name, s) == <<name, s>>
BestPath(name) == <<"best_" \o name>>

\* (a faulty variant: best_val_loss is updated before the 'best' files are
\* written, so that they record the new loss as the previous best)
SaveAfterUpdate(files, paths, sd, s, vl, prev) ==
    {f \in files : f.path \notin {paths[n] : n \in DOMAIN paths}}
    \cup {[path |-> paths[n], state_dict |-> sd[n], step |-> s,
           val_loss |-> vl,
           prev_best_val_loss |-> IF vl # None THEN vl ELSE prev] : n \in DOMAIN paths}

\* torch.save of one dictionary per module of names, replacing older files
Save(files, paths, sd, s, vl, prev) ==
    {f \in files : f.path \notin {paths[n] : n \in DOMAIN paths}}
    \cup {[path |-> paths[n], state_dict |-> sd[n], step |-> s,
           val_loss |-> vl, prev_best_val_loss |-> prev] : n \in DOMAIN paths}

\* the if/elif chains on exp_const.optimizer and exp_const.dataset (and a
\* faulty variant whose else branch does not raise)
OptimizerAnything(name) == TRUE
OptimizerImplemented(name) == name \in {"SGD", "Adam"}
DatasetImplemented(name) == name \in {"coco", "flickr"}

\* step % every == 0, the test of each periodic side effect (and a faulty
\* variant that tests the step after its increment)
DueBeforeStep(s, every) == (s + 1) % every = 0
Due(s, every) == s % every = 0

\* val_loss < best_val_loss (and two faulty variants: the comparison turned
\* around, and the comparison made non-strict)
Worse(val_loss, best) == RLt(best, val_loss)
ImprovedOrEqual(val_loss, best) == RLe(val_loss, best)
Improved(val_loss, best) == RLt(val_loss, best)

\* the configurations of a training run: one full validation batch
Configs ==
    {c \in [optimizer : {s[1] : s \in Setups}, dataset : {s[2] : s \in Setups},
            random_lang : BOOLEAN, contextualize : {TRUE},
            num_epochs : {NumEpochs},
            log_step : Cadences, model_save_step : Cadences, val_step : Cadences,
            num_val_samples : {None, <<0>>},
            train_size : {DataSize.train}, val_size : {DataSize.val},
            model_num : {-1}] :
        <<c.optimizer, c.dataset>> \in Setups}

\* the state of a process that has just entered main
Fresh ==
    /\ pc = "main"
    /\ err = ""
    /\ params = [m \in Modules |-> 0]
    /\ mode = [m \in Modules |-> "train"]
    /\ opt = NoOpt
    /\ epoch = 0 /\ it = 0 /\ step = 0
    /\ best_val_loss = None
    /\ data = NoData /\ enc_in = NoEncIn /\ loss = None
    /\ trace = <<>>
    /\ best_written = <<>>
    /\ ev = NoEv
    /\ eval_results = NoResults

Init ==
    /\ exp_const \in Configs
    /\ run = 1
    /\ tb = {}
    /\ disk = {}
    /\ Fresh

Raise(e) ==
    /\ pc' = "error"
    /\ err' = e

HasCheckpoint(k) ==
    \A m \in Trainable : \E f \in disk : f.path = StepPath(m, k)

Loaded(m) == (CHOOSE f \in disk : f.path = StepPath(m, exp_const.model_num)).state_dict

\* main, up to the creation of the dataloaders: the network is built and,
\* when model_num # -1, the three trainable modules are loaded from disk
MainCreate ==
    /\ pc = "main"
    /\ IF exp_const.model_num # -1 /\ ~HasCheckpoint(exp_const.model_num)
       THEN Raise("FileNotFoundError") /\ UNCHANGED params
       ELSE /\ params' = [m \in Modules |->
                            IF exp_const.model_num # -1 /\ m \in Trainable
                            THEN Loaded(m) ELSE 0]
            /\ pc' = "dataloaders"
            /\ UNCHANGED err
    /\ UNCHANGED <<exp_const, run, mode, opt, epoch, it, step, best_val_loss,
                   data, enc_in, loss, trace, tb, disk, best_written, ev,
                   eval_results>>

MainDataloaders ==
    /\ pc = "dataloaders"
    /\ IF DatasetImplemented(exp_const.dataset)
       THEN pc' = "train_model" /\ UNCHANGED err
       ELSE Raise("NotImplementedError")
    /\ UNCHANGED <<exp_const, run, params, mode, opt, epoch, it, step,
                   best_val_loss, data, enc_in, loss, trace, tb, disk,
                   best_written, ev, eval_results>>

\* train_model before its loops: optimizer, step, best_val_loss
TrainInit ==
    /\ pc = "train_model"
    /\ IF OptimizerImplemented(exp_const.optimizer)
       THEN /\ opt' = [kind |-> exp_const.optimizer, groups |-> save_items, t |-> 0]
            /\ step' = IF exp_const.model_num = -1 THEN 0 ELSE exp_const.model_num
            /\ best_val_loss' = <<InitBestValLoss, 1>>
            /\ pc' = "fetch"
            /\ UNCHANGED err
       ELSE /\ Raise("AssertionError")
            /\ UNCHANGED <<opt, step, best_val_loss>>
    /\ UNCHANGED <<exp_const, run, params, mode, epoch, it, data, enc_in, loss,
                   trace, tb, disk, best_written, ev, eval_results>>

TrainSizes == BatchSizes(exp_const.train_size, BatchSize.train)
ValSizes == BatchSizes(exp_const.val_size, BatchSize.val)

\* the two for loops of train_model
NextBatch ==
    /\ pc = "fetch"
    /\ epoch < exp_const.num_epochs
    /\ it < Len(TrainSizes)
    /\ trace' = <<>>
    /\ pc' = "forward"
    /\ UNCHANGED <<exp_const, run, err, params, mode, opt, epoch, it, step,
                   best_val_loss, data, enc_in, loss, tb, disk, best_written,
                   ev, eval_results>>

NextEpoch ==
    /\ pc = "fetch"
    /\ epoch < exp_const.num_epochs
    /\ it >= Len(TrainSizes)
    /\ epoch' = epoch + 1
    /\ it' = 0
    /\ UNCHANGED <<exp_const, run, pc, err, params, mode, opt, step,
                   best_val_loss, data, enc_in, loss, trace, tb, disk,
                   best_written, ev, eval_results>>

Finish ==
    /\ pc = "fetch"
    /\ epoch >= exp_const.num_epochs
    /\ pc' = "done"
    /\ UNCHANGED <<exp_const, run, err, params, mode, opt, epoch, it, step,
                   best_val_loss, data, enc_in, loss, trace, tb, disk,
                   best_written, ev, eval_results>>

\* the forward pass of one training iteration: train mode, the three losses
Forward ==
    /\ pc = "forward"
    /\ mode' = [m \in Modules |-> IF m \in save_items THEN "train" ELSE mode[m]]
    /\ loss' \in LossVecs
    /\ pc' = "backward"
    /\ UNCHANGED <<exp_const, run, err, params, opt, epoch, it, step,
                   best_val_loss, data, enc_in, trace, tb, disk, best_written,
                   ev, eval_results>>

\* opt.zero_grad(); loss.backward(); opt.step(): the batch is used up
Backward ==
    /\ pc = "backward"
    /\ IF opt = NoOpt
       THEN Raise("NameError") /\ UNCHANGED <<params, opt, trace>>
       ELSE /\ params' = [m \in Modules |->
                            IF m \in opt.groups THEN params[m] + 1 ELSE params[m]]
            /\ opt' = [opt EXCEPT !.t = @ + 1]
            /\ trace' = Append(trace, "opt")
            /\ pc' = "log"
            /\ UNCHANGED err
    /\ loss' = None
    /\ UNCHANGED <<exp_const, run, mode, epoch, it, step, best_val_loss, data,
                   enc_in, tb, disk, best_written, ev, eval_results>>

Log ==
    /\ pc = "log"
    /\ IF Due(step, exp_const.log_step)
       THEN /\ tb' = tb \cup {<<"Train", step>>}
            /\ trace' = Append(trace, "log")
       ELSE UNCHANGED <<tb, trace>>
    /\ pc' = "save"
    /\ UNCHANGED <<exp_const, run, err, params, mode, opt, epoch, it, step,
                   best_val_loss, data, enc_in, loss, disk, best_written, ev,
                   eval_results>>

SaveStep ==
    /\ pc = "save"
    /\ IF Due(step, exp_const.model_save_step)
       THEN /\ disk' = Save(disk, [n \in save_items |-> StepPath(n, step)],
                            params, step, None, best_val_loss)
            /\ trace' = Append(trace, "save")
       ELSE UNCHANGED <<disk, trace>>
    /\ pc' = "val"
    /\ UNCHANGED <<exp_const, run, err, params, mode, opt, epoch, it, step,
                   best_val_loss, data, enc_in, loss, tb, best_written, ev,
                   eval_results>>

Val ==
    /\ pc = "val"
    /\ IF Due(step, exp_const.val_step)
       THEN /\ pc' = "eval_model"
            /\ trace' = Append(trace, "val")
       ELSE /\ pc' = "incr"
            /\ UNCHANGED trace
    /\ UNCHANGED <<exp_const, run, err, params, mode, opt, epoch, it, step,
                   best_val_loss, data, enc_in, loss, tb, disk, best_written,
                   ev, eval_results>>

\* ------------------------------------------------------------ eval_model
\* entry of eval_model: eval mode, zeroed accumulators
EvalBegin ==
    /\ pc = "eval_model"
    /\ mode' = [m \in Modules |-> IF m \in save_items THEN "eval" ELSE mode[m]]
    /\ ev' = NoEv
    /\ pc' = "eval_loop"
    /\ UNCHANGED <<exp_const, run, err, params, opt, epoch, it, step,
                   best_val_loss, data, enc_in, loss, trace, tb, disk,
                   best_written, eval_results>>

\* (a faulty variant: > in place of >=)
MoreThanEnoughSamples(n) ==
    /\ exp_const.num_val_samples # None
    /\ n > exp_const.num_val_samples[1]

\* the break condition at the top of the loop body
EnoughSamples(n) ==
    /\ exp_const.num_val_samples # None
    /\ n >= exp_const.num_val_samples[1]

Accumulate(e, batch_size, l) ==
    [i |-> e.i + 1,
     num_samples |-> e.num_samples + batch_size,
     sums |-> [k \in 1..3 |-> e.sums[k] + l[k] * batch_size],
     processed |-> Append(e.processed, [size |-> batch_size, loss |-> l])]

\* (a faulty variant: the loop body of train_model copied with its backward
\* pass, so that validation batches update the weights)
EvalBatchWithBackward ==
    /\ pc = "eval_loop"
    /\ ev.i < Len(ValSizes)
    /\ ~EnoughSamples(ev.num_samples)
    /\ \E l \in LossVecs : ev' = Accumulate(ev, ValSizes[ev.i + 1], l)
    /\ params' = [m \in Modules |->
                    IF m \in opt.groups THEN params[m] + 1 ELSE params[m]]
    /\ opt' = [opt EXCEPT !.t = @ + 1]
    /\ UNCHANGED <<exp_const, run, pc, err, mode, epoch, it, step,
                   best_val_loss, data, enc_in, loss, trace, tb, disk,
                   best_written, eval_results>>

\* one pass through the loop body over the validation dataloader
EvalBatch ==
    /\ pc = "eval_loop"
    /\ ev.i < Len(ValSizes)
    /\ ~EnoughSamples(ev.num_samples)
    /\ \E l \in LossVecs : ev' = Accumulate(ev, ValSizes[ev.i + 1], l)
    /\ UNCHANGED <<exp_const, run, pc, err, params, mode, opt, epoch, it, step,
                   best_val_loss, data, enc_in, loss, trace, tb, disk,
                   best_written, eval_results>>

\* the loop ends: the dataloader is exhausted or the break is taken
EvalExit ==
    /\ pc = "eval_loop"
    /\ \/ ev.i >= Len(ValSizes)
       \/ EnoughSamples(ev.num_samples)
    /\ pc' = "eval_return"
    /\ UNCHANGED <<exp_const, run, err, params, mode, opt, epoch, it, step,
                   best_val_loss, data, enc_in, loss, trace, tb, disk,
                   best_written, ev, eval_results>>

\* total_loss: the weighted sum of the three averages
TotalLoss(avg) ==
    RAdd(RAdd(RScale(LossWts[1], avg[1]), RScale(LossWts[2], avg[2])),
         RScale(LossWts[3], avg[3]))

Results(e) ==
    LET avg == [k \in 1..3 |-> Rat(e.sums[k], e.num_samples)]
    IN [self_sup_loss |-> avg[1], lang_sup_loss |-> avg[2],
        neg_noun_loss |-> avg[3], total_loss |-> TotalLoss(avg)]

\* the averages and the return; a division by zero when nothing was summed
EvalReturn ==
    /\ pc = "eval_return"
    /\ IF ev.num_samples = 0
       THEN /\ Raise("ZeroDivisionError")
            /\ UNCHANGED eval_results
       ELSE /\ eval_results' = Results(ev)
            /\ pc' = "best"
            /\ UNCHANGED err
    /\ ev' = NoEv
    /\ UNCHANGED <<exp_const, run, params, mode, opt, epoch, it, step,
                   best_val_loss, data, enc_in, loss, trace, tb, disk,
                   best_written>>

\* train_model after eval_model returned: validation scalars, 'best' files
Best ==
    /\ pc = "best"
    /\ tb' = tb \cup {<<"Val", step>>}
    /\ LET val_loss == eval_results.total_loss
       IN IF Improved(val_loss, best_val_loss)
          THEN /\ disk' = Save(disk, [n \in save_items |-> BestPath(n)],
                               params, step, val_loss, best_val_loss)
               /\ best_val_loss' = val_loss
               /\ best_written' = Append(best_written, val_loss)
               /\ trace' = Append(trace, "best")
          ELSE UNCHANGED <<disk, best_val_loss, best_written, trace>>
    /\ eval_results' = NoResults
    /\ pc' = "incr"
    /\ UNCHANGED <<exp_const, run, err, params, mode, opt, epoch, it, step,
                   data, enc_in, loss, ev>>

Incr ==
    /\ pc = "incr"
    /\ step' = step + 1
    /\ it' = it + 1
    /\ pc' = "fetch"
    /\ UNCHANGED <<exp_const, run, err, params, mode, opt, epoch,
                   best_val_loss, data, enc_in, loss, trace, tb, disk,
                   best_written, ev, eval_results>>

\* main is invoked again on the same directories with model_num = k, the
\* step of a checkpoint the earlier runs left in model_dir
Resume ==
    /\ pc \in {"done", "error"}
    /\ run = 1
    /\ \E k \in {f.step : f \in disk} :
         /\ HasCheckpoint(k)
         /\ exp_const' = [exp_const EXCEPT !.model_num = k]
    /\ run' = run + 1
    /\ pc' = "main"
    /\ err' = ""
    /\ params' = [m \in Modules |-> 0]
    /\ mode' = [m \in Modules |-> "train"]
    /\ opt' = NoOpt
    /\ epoch' = 0 /\ it' = 0 /\ step' = 0
    /\ best_val_loss' = None
    /\ data' = NoData /\ enc_in' = NoEncIn /\ loss' = None
    /\ trace' = <<>>
    /\ best_written' = <<>>
    /\ ev' = NoEv
    /\ eval_results' = NoResults
    /\ UNCHANGED <<tb, disk>>

Next ==
    \/ MainCreate
    \/ MainDataloaders
    \/ TrainInit
    \/ NextBatch
    \/ NextEpoch
    \/ Finish
    \/ Forward
    \/ Backward
    \/ Log
    \/ SaveStep
    \/ Val
    \/ EvalBegin
    \/ EvalBatch
    \/ EvalExit
    \/ EvalReturn
    \/ Best
    \/ Incr
    \/ Resume

Spec == Init /\ [][Next]_vars

\* ------------------------------------------------- eval_model on its own
\* one call of eval_model, over every validation dataset of up to MaxValSize
\* samples and every num_val_samples up to one more than that
EvalConfigs ==
    [optimizer : {"SGD"}, dataset : {"coco"},
     random_lang : BOOLEAN, contextualize : {TRUE},
     num_epochs : {NumEpochs},
     log_step : {1}, model_save_step : {1}, val_step : {1},
     num_val_samples : {None} \cup {<<n>> : n \in 0..(MaxValSize + 1)},
     train_size : {DataSize.train}, val_size : 0..MaxValSize,
     model_num : {-1}]

InitEval ==
    /\ exp_const \in EvalConfigs
    /\ run = 1
    /\ tb = {<<"Train", 0>>}
    /\ params = [m \in Modules |-> IF m \in save_items THEN 1 ELSE 0]
    /\ disk = Save({}, [n \in save_items |-> StepPath(n, 0)], params, 0, None,
                   <<InitBestValLoss, 1>>)
    /\ pc = "eval_model"
    /\ err = ""
    /\ mode = [m \in Modules |-> "train"]
    /\ opt = [kind |-> exp_const.optimizer, groups |-> save_items, t |-> 1]
    /\ epoch = 0 /\ it = 0 /\ step = 0
    /\ best_val_loss = <<InitBestValLoss, 1>>
    /\ data = NoData /\ enc_in = NoEncIn /\ loss = None
    /\ trace = <<"opt", "log", "save", "val">>
    /\ best_written = <<>>
    /\ ev = NoEv
    /\ eval_results = NoResults

NextEval ==
    \/ EvalBegin
    \/ EvalBatch
    \/ EvalExit
    \/ EvalReturn

SpecEval == InitEval /\ [][NextEval]_vars

\* ------------------------------------------- the calls of ObjectEncoder
EncoderConfigs ==
    [optimizer : {"SGD"}, dataset : {"coco"},
     random_lang : {FALSE}, contextualize : BOOLEAN,
     num_epochs : {NumEpochs},
     log_step : {1}, model_save_step : {1}, val_step : {1},
     num_val_samples : {None},
     train_size : {DataSize.train}, val_size : {DataSize.val},
     model_num : {-1}]

InitEncoder ==
    /\ exp_const \in EncoderConfigs
    /\ run = 1
    /\ tb = {}
    /\ disk = {}
    /\ pc = "forward"
    /\ err = ""
    /\ params \in {[m \in Modules |-> IF m \in save_items THEN v ELSE 0] : v \in {0, 1}}
    /\ mode = [m \in Modules |-> "train"]
    /\ opt = [kind |-> exp_const.optimizer, groups |-> save_items,
              t |-> params["object_encoder"]]
    /\ epoch = 0 /\ it = 0 /\ step = 0
    /\ best_val_loss = <<InitBestValLoss, 1>>
    /\ data = NoData /\ enc_in = NoEncIn /\ loss = None
    /\ trace = <<>>
    /\ best_written = <<>>
    /\ ev = NoEv
    /\ eval_results = NoResults

\* what the call site hands to the encoder: both callers pass the batch's
\* features and both of its masks when contextualize is set, and do not call
\* the encoder otherwise
Contextualize(d) ==
    IF exp_const.contextualize = TRUE
    THEN forward(d.features, d.object_mask, d.pad_mask, params["object_encoder"])
    ELSE NoEncIn

\* the head of a training iteration of train_model
TrainForward ==
    /\ mode' = [m \in Modules |-> IF m \in save_items THEN "train" ELSE mode[m]]
    /\ \E d \in Batches(NumObjects) :
         /\ data' = d
         /\ enc_in' = Contextualize(d)
    /\ UNCHANGED <<exp_const, run, pc, err, params, opt, epoch, it, step,
                   best_val_loss, loss, trace, tb, disk, best_written, ev,
                   eval_results>>

\* the head of a loop body of eval_model
EvalForward ==
    /\ mode' = [m \in Modules |-> IF m \in save_items THEN "eval" ELSE mode[m]]
    /\ \E d \in Batches(NumObjects) :
         /\ data' = d
         /\ enc_in' = Contextualize(d)
    /\ UNCHANGED <<exp_const, run, pc, err, params, opt, epoch, it, step,
                   best_val_loss, loss, trace, tb, disk, best_written, ev,
                   eval_results>>

NextEncoder ==
    \/ TrainForward
    \/ EvalForward

SpecEncoder == InitEncoder /\ [][NextEncoder]_vars

\* ================================================================ claims
BestFiles == {f \in disk : Len(f.path) = 1}
StepFiles == {f \in disk : Len(f.path) = 2}
NonIncreasing(q) == \A i, j \in DOMAIN q : i < j => RLe(q[j], q[i])
Last(q) == q[Len(q)]
Start == IF exp_const.model_num = -1 THEN 0 ELSE exp_const.model_num

\* C1: within one run of train_model best_val_loss never increases, and the
\* val_loss values of the successive 'best' checkpoints the run writes are
\* non-increasing; each 'best' file on disk after a write carries the latest.
C1_BestMonotoneInRun ==
    [][/\ (run' = run /\ best_val_loss # None)
          => (best_val_loss' # None /\ RLe(best_val_loss', best_val_loss))
       /\ NonIncreasing(best_written')
       /\ best_written' # best_written /\ run' = run
          => /\ best_written' = Append(best_written, best_val_loss')
             /\ \A n \in save_items : \E f \in disk' :
                  f.path = BestPath(n) /\ f.val_loss = best_val_loss'
             /\ \A f \in BestFiles' : f.val_loss = best_val_loss']_vars

\* two 'best' checkpoints were written in this run, and a later validation
\* that did not improve wrote none
C1_Witness ==
    /\ Len(best_written) >= 2
    /\ pc = "incr"
    /\ trace = <<"opt", "val">>

\* C2: across a resumption too, a 'best' checkpoint is only ever replaced by
\* one whose val_loss is not greater.
C2_BestMonotoneAcrossRuns ==
    [][\A f \in BestFiles, g \in BestFiles' :
         g.path = f.path => RLe(g.val_loss, f.val_loss)]_vars

\* C3: a step-numbered checkpoint is written exactly in the iterations with
\* step % model_save_step = 0, a 'best' checkpoint exactly when a validation
\* pass ran (step % val_step = 0) and returned a total_loss strictly below
\* best_val_loss, and the model directory changes at no other time.
C3_CheckpointTimes ==
    [][/\ pc = "save"
          => /\ (trace' = Append(trace, "save")) <=> (step % exp_const.model_save_step = 0)
             /\ trace' # trace
                => \A n \in save_items : \E f \in disk' :
                     f.path = StepPath(n, step) /\ f.step = step
             /\ trace' = trace => disk' = disk
             /\ BestFiles' = BestFiles
       /\ pc = "val"
          => (pc' = "eval_model") <=> (step % exp_const.val_step = 0)
       /\ pc = "best"
          => /\ step % exp_const.val_step = 0
             /\ (trace' = Append(trace, "best"))
                <=> (eval_results.total_loss[1] * best_val_loss[2]
                       < best_val_loss[1] * eval_results.total_loss[2])
             /\ trace' # trace
                => \A n \in save_items : \E f \in disk' :
                     f.path = BestPath(n) /\ f.step = step
             /\ trace' = trace => disk' = disk
             /\ StepFiles' = StepFiles
       /\ pc \notin {"save", "best"} => disk' = disk
       /\ pc \notin {"val", "eval_model", "eval_loop", "eval_return"}
          => pc' \notin {"eval_model", "eval_loop", "eval_return", "best"}]_vars

\* an iteration whose validation returned more than best_val_loss: no 'best'
\* file, although a step-numbered one was written
C3_Witness ==
    /\ pc = "incr"
    /\ trace = <<"opt", "save", "val">>
    /\ best_val_loss = <<InitBestValLoss, 1>>
    /\ BestFiles = {}
    /\ StepFiles # {}

Unsupported ==
    \/ exp_const.optimizer \notin {"SGD", "Adam"}
    \/ exp_const.dataset \notin {"coco", "flickr"}

\* C4: with an unsupported optimizer or dataset name the run never gets past
\* the check: no batch is taken, no optimizer exists or steps, nothing is
\* validated, logged or saved, and the run ends in the error it raised, an
\* unsupported dataset in main before train_model is entered.
C4_FailFast ==
    Unsupported =>
        /\ pc \in {"main", "dataloaders", "train_model", "error"}
        /\ opt = NoOpt
        /\ params = [m \in Modules |-> 0]
        /\ epoch = 0 /\ it = 0 /\ step = 0
        /\ trace = <<>> /\ tb = {} /\ disk = {}
        /\ best_val_loss = None
        /\ exp_const.dataset \notin {"coco", "flickr"} => pc # "train_model"
        /\ pc = "error"
           => /\ err = IF exp_const.dataset \notin {"coco", "flickr"}
                       THEN "NotImplementedError" ELSE "AssertionError"
              /\ ~ENABLED Next
        /\ pc # "error" => ENABLED Next

C4_Witness ==
    /\ pc = "error"
    /\ err = "AssertionError"
    /\ exp_const.optimizer = "RMSprop"

\* C5: every checkpoint file holds a state dict, a step, a val_loss entry and
\* prev_best_val_loss.  A 'best' file is written with the current step, the
\* total_loss just returned and the best_val_loss from before its update, so
\* val_loss < prev_best_val_loss; a step-numbered file is written with the
\* current step and the current best_val_loss.
C5_CheckpointContents ==
    [][/\ \A f \in disk' :
            /\ DOMAIN f = {"path", "state_dict", "step", "val_loss",
                           "prev_best_val_loss"}
            /\ f.prev_best_val_loss # None
            /\ Len(f.path) = 1
               => f.val_loss # None /\ RLt(f.val_loss, f.prev_best_val_loss)
            /\ Len(f.path) = 2 => f.path[2] = f.step
       /\ (pc = "save" /\ trace' # trace)
          => \A n \in save_items :
               [path |-> StepPath(n, step), state_dict |-> params[n],
                step |-> step, val_loss |-> None,
                prev_best_val_loss |-> best_val_loss] \in disk'
       /\ (pc = "best" /\ trace' # trace)
          => \A n \in save_items :
               [path |-> BestPath(n), state_dict |-> params[n],
                step |-> step, val_loss |-> eval_results.total_loss,
                prev_best_val_loss |-> best_val_loss] \in disk'
       /\ \A f \in disk' \ disk :
            /\ f.step = step
            /\ f.prev_best_val_loss = best_val_loss
            /\ Len(f.path) = 1 => f.val_loss = eval_results.total_loss]_vars

\* a 'best' file that replaced an earlier best, next to a step-numbered file
\* of a later step that records the same best
C5_Witness ==
    \E f \in BestFiles, g \in StepFiles :
        /\ f.prev_best_val_loss # <<InitBestValLoss, 1>>
        /\ g.step > f.step
        /\ g.prev_best_val_loss = f.val_loss

\* C6: whenever ObjectEncoder.forward is called (from the training loop or
\* from eval_model), input_layer receives the batch with pad_feat at every
\* position whose pad_mask is set, mask_feat at every other position whose
\* object_mask is set and the given feature elsewhere, and context_layer
\* receives input_layer's output for exactly those features; without
\* contextualize the encoder is not called.
C6_SubstitutionFirst ==
    LET v == params["object_encoder"]
        expected == [i \in DOMAIN data.features |->
                       IF data.pad_mask[i] THEN PadFeat(v)
                       ELSE IF data.object_mask[i] THEN MaskFeat(v)
                       ELSE data.features[i]]
    IN data # NoData =>
         IF exp_const.contextualize
         THEN /\ enc_in.input_layer = expected
              /\ enc_in.context_layer = <<"input_layer", expected>>
         ELSE enc_in = NoEncIn

\* a validation batch with one position masked and padded at once and one
\* position untouched
C6_Witness ==
    /\ data # NoData
    /\ mode["object_encoder"] = "eval"
    /\ exp_const.contextualize
    /\ \E i, j \in DOMAIN data.features :
         /\ data.pad_mask[i] /\ data.object_mask[i]
         /\ ~data.pad_mask[j] /\ ~data.object_mask[j]
         /\ enc_in.input_layer[i] = PadFeat(params["object_encoder"])
         /\ enc_in.input_layer[j] = data.features[j]

Rank(e) == CASE e = "opt" -> 1 [] e = "log" -> 2 [] e = "save" -> 3
             [] e = "val" -> 4 [] e = "best" -> 5
AfterHead == {"log", "save", "val", "eval_model", "eval_loop", "eval_return",
              "best", "incr"}

\* C7: in every iteration the optimizer update comes first, training scalars
\* are logged exactly when step % log_step = 0, a validation pass is started
\* exactly when step % val_step = 0, the side effects happen in the order
\* update, logging, step-numbered checkpoint, validation, 'best' checkpoint,
\* and step is incremented only after all of them: what they wrote carries
\* the step the iteration began with.
C7_Cadence ==
    /\ \A i, j \in DOMAIN trace : i < j => Rank(trace[i]) < Rank(trace[j])
    /\ pc \in AfterHead => trace # <<>> /\ trace[1] = "opt"
    /\ pc \in AfterHead \ {"log"}
       => /\ (\E i \in DOMAIN trace : trace[i] = "log")
             <=> (step % exp_const.log_step = 0)
          /\ (<<"Train", step>> \in tb) <=> (step % exp_const.log_step = 0)
    /\ pc \in AfterHead \ {"log", "save"}
       => ((\E i \in DOMAIN trace : trace[i] = "save")
           => \A n \in save_items : \E f \in disk : f.path = <<n, step>>)
    /\ pc \in AfterHead \ {"log", "save", "val"}
       => (\E i \in DOMAIN trace : trace[i] = "val")
          <=> (step % exp_const.val_step = 0)
    /\ pc = "incr"
       => /\ (<<"Val", step>> \in tb) <=> (step % exp_const.val_step = 0)
          /\ ((\E i \in DOMAIN trace : trace[i] = "best")
              => \A f \in BestFiles : f.step = step)
    /\ \A e \in tb :
         e[2] % (IF e[1] = "Train" THEN exp_const.log_step
                 ELSE exp_const.val_step) = 0
    /\ pc \in {"fetch", "forward", "backward", "done"}
       => /\ opt.t = step - Start
          /\ \A s \in Start..(step - 1) :
               /\ s % exp_const.log_step = 0 => <<"Train", s>> \in tb
               /\ s % exp_const.val_step = 0 => <<"Val", s>> \in tb

\* an iteration at a step that is logged, saved and validated, and one at a
\* step that is none of these, have both completed
C7_Witness ==
    /\ pc = "incr"
    /\ trace = <<"opt">>
    /\ <<"Train", step - 1>> \in tb
    /\ <<"Val", step - 1>> \in tb
    /\ \E f \in StepFiles : f.step = step - 1

InEval == {"eval_model", "eval_loop", "eval_return"}

\* C8: no step of eval_model changes the weights, the optimizer, step or
\* best_val_loss (nor the model directory or the logged scalars); within a
\* run best_val_loss changes only afterwards in train_model, to the returned
\* total_loss and only when that is strictly smaller.
C8_EvalFrame ==
    [][/\ pc \in InEval
          => /\ params' = params
             /\ opt' = opt
             /\ step' = step
             /\ best_val_loss' = best_val_loss
             /\ disk' = disk /\ tb' = tb
       /\ (run' = run /\ best_val_loss # None /\ best_val_loss' # best_val_loss)
          => /\ pc = "best"
             /\ best_val_loss' = eval_results.total_loss
             /\ RLt(best_val_loss', best_val_loss)]_vars

\* eval_model has returned a loss below a best_val_loss that an earlier
\* validation of this run had already lowered
C8_Witness ==
    /\ pc = "best"
    /\ best_val_loss # <<InitBestValLoss, 1>>
    /\ RLt(eval_results.total_loss, best_val_loss)
    /\ opt.t >= 2

\* C9: every batch drives one optimizer update and one increment of step, and
\* with a supported optimizer train_model ends, after num_epochs passes over
\* the dataloader, with step = start + num_epochs * (batches per epoch).
C9_EveryBatchOnce ==
    /\ pc \in {"fetch", "done"}
       => opt.t = epoch * Len(TrainSizes) + it /\ step = Start + opt.t
    /\ (pc \in {"done", "error"} /\ opt # NoOpt)
       => /\ pc = "done"
          /\ step = Start + exp_const.num_epochs * Len(TrainSizes)

RECURSIVE Samples(_)
Samples(q) == IF q = <<>> THEN 0 ELSE Samples(SubSeq(q, 1, Len(q) - 1)) + Last(q).size
RECURSIVE WeightedSum(_, _)
WeightedSum(q, k) ==
    IF q = <<>> THEN 0
    ELSE WeightedSum(SubSeq(q, 1, Len(q) - 1), k) + Last(q).loss[k] * Last(q).size

\* C10: with num_val_samples set, eval_model processes the shortest prefix of
\* the validation batches whose sample count reaches num_val_samples, or all
\* of them if they hold fewer (all of them too when it is None), so the count
\* exceeds num_val_samples by less than the last batch processed; each
\* returned term is the sample-weighted mean over exactly those batches and
\* total_loss is the sum of the means weighted by the loss weights.
C10_ValidationPrefix ==
    [][/\ pc' = "eval_return"
          => LET q == ev'.processed
                 n == Samples(q)
                 nvs == exp_const.num_val_samples
             IN /\ ev'.num_samples = n
                /\ Len(q) <= Len(ValSizes)
                /\ \A j \in DOMAIN q : q[j].size = ValSizes[j]
                /\ nvs = None => Len(q) = Len(ValSizes)
                /\ nvs # None
                   => /\ Len(q) = Len(ValSizes) \/ n >= nvs[1]
                      /\ q # <<>> => n - Last(q).size < nvs[1]
       /\ (pc = "eval_return" /\ pc' = "best")
          => LET q == ev.processed
                 n == Samples(q)
                 mean == [k \in 1..3 |-> <<WeightedSum(q, k), n>>]
                 total == <<LossWts[1] * WeightedSum(q, 1)
                            + LossWts[2] * WeightedSum(q, 2)
                            + LossWts[3] * WeightedSum(q, 3), n>>
                 same(x, y) == x[1] * y[2] = y[1] * x[2]
             IN /\ n > 0
                /\ same(eval_results'.self_sup_loss, mean[1])
                /\ same(eval_results'.lang_sup_loss, mean[2])
                /\ same(eval_results'.neg_noun_loss, mean[3])
                /\ same(eval_results'.total_loss, total)]_vars

\* the break was taken before the dataloader ended, with more samples summed
\* than num_val_samples
C10_Witness ==
    /\ pc = "eval_return"
    /\ exp_const.num_val_samples # None
    /\ ev.num_samples > exp_const.num_val_samples[1]
    /\ ev.i >= 1
    /\ ev.i < Len(ValSizes)

\* C11: eval_model always returns a result: whenever the averages are
\* computed at least one batch has been processed and num_samples > 0, so no
\* validation pass ends in a division by zero, whatever the validation
\* dataloader (an empty one too) and num_val_samples (0 too).
C11_EvalAlwaysReturns ==
    /\ pc = "eval_return" => (ev.i >= 1 /\ ev.num_samples > 0)
    /\ err # "ZeroDivisionError"
====
